---- MODULE Spec2Model ----
(***************************************************************************)
(* A state-machine model of the font gallery page script (src/script.js):  *)
(* the debounce utility, the clipboard writer with its legacy fallback,    *)
(* the favorites store kept in localStorage, the catalog loader, the       *)
(* render pipeline and the page's event handlers, run on one event loop.   *)
(*                                                                         *)
(* Every action is one task of the event loop (an event handler, a timer   *)
(* callback or the continuation of an await), executed to completion.      *)
(* Time is counted in milliseconds; a timer runs when its delay has        *)
(* elapsed, and time does not pass a timer that is due.                    *)
(***************************************************************************)
EXTENDS Integers, Sequences, FiniteSets, TLC

\* ------------------------------------------------------------------ bounds
MaxFonts == 2      \* longest catalog delivered by fonts.json
MaxStored == 1     \* longest array found in localStorage at startup
MaxInput == 2      \* longest value typed into the text input
MaxWrites == 3     \* the count of localStorage writes saturates here
MaxCalls == 2      \* the count of debounced calls awaiting a run saturates here
MaxToasts == 2     \* card clicks whose toast is pending or still to come
MaxLeaked == 1     \* the count of textareas left in the document saturates here
TickStep == 100    \* granularity (ms) of the passage of time

\* -------------------------------------------------------- program constants
Wait == 300          \* debounce(..., 300)
StartupDelay == 100  \* setTimeout(..., 100) when the Font Loading API is missing
CopiedDelay == 600   \* the "copied" class is removed after 600 ms
ToastDelay == 3000   \* the toast is hidden after 3000 ms

DefaultText == <<"A", "B", "C">>   \* input.value.trim() || "ABC"

\* ------------------------------------------------------------ value domains
Names == {"Retro", "Neon"}
Chars == {" ", "x"}
Filters == {"all", "serif", "display", "favorites"}   \* btn.dataset.filter

\* the font descriptors fonts.json may hold: {name, category, class}
Descriptors ==
  { [name |-> "Retro", category |-> "serif",   class |-> "f-retro"],
    [name |-> "Neon",  category |-> "display", class |-> "f-neon"] }

SeqsUpTo(S, n) == UNION { [1..k -> S] : k \in 0..n }

Catalogs == SeqsUpTo(Descriptors, MaxFonts)
InputValues == SeqsUpTo(Chars, MaxInput)

Min(a, b) == IF a < b THEN a ELSE b

\* ------------------------------------------------------------- localStorage
\* The item under "fontFavorites": absent (getItem gives null), the JSON text
\* of an array of names, or a text JSON.parse rejects.
Absent == [kind |-> "absent", items |-> <<>>]
Malformed == [kind |-> "malformed", items |-> <<>>]
JSONstringify(arr) == [kind |-> "array", items |-> arr]
StoredValues == {Absent, Malformed} \cup { JSONstringify(a) : a \in SeqsUpTo(Names, MaxStored) }

\* ------------------------------------------------------- the favorites Set
\* A JavaScript Set iterates in insertion order: it is modelled as a sequence
\* without repetitions.
SetHas(s, x) == \E i \in 1..Len(s) : s[i] = x
SetAdd(s, x) == IF SetHas(s, x) THEN s ELSE Append(s, x)
SetDelete(s, x) == SelectSeq(s, LAMBDA y : y # x)
RECURSIVE NewSet(_)
NewSet(arr) ==
  IF arr = <<>> THEN <<>>
  ELSE SetAdd(NewSet(SubSeq(arr, 1, Len(arr) - 1)), arr[Len(arr)])
Elems(s) == { s[i] : i \in 1..Len(s) }

\* --------------------------------------------------------------- String.trim
RECURSIVE TrimStart(_)
TrimStart(s) ==
  IF s = <<>> THEN s ELSE IF Head(s) = " " THEN TrimStart(Tail(s)) ELSE s
RECURSIVE TrimEnd(_)
TrimEnd(s) ==
  IF s = <<>> THEN s
  ELSE IF s[Len(s)] = " " THEN TrimEnd(SubSeq(s, 1, Len(s) - 1)) ELSE s
Trim(s) == TrimEnd(TrimStart(s))

\* ----------------------------------------------------------------- state
VARIABLES
  fontsApi,      \* document.fonts && document.fonts.ready is truthy
  clipboardApi,  \* navigator.clipboard && window.isSecureContext is truthy
  storage,       \* localStorage item "fontFavorites"
  fonts,         \* let fonts
  currentFilter, \* let currentFilter
  favorites,     \* let favorites
  inputValue,    \* input.value
  activeBtn,     \* the filter button carrying class "active"
  grid,          \* the cards in #grid, in document order
  count,         \* statsCount.textContent
  toast,         \* toast carries class "show"
  textAreas,     \* temporary textareas present in document.body
  initPhase,     \* "waiting", "done" (init callback ran), "crashed" (it threw)
  loadPhase,     \* loadFonts: "idle", "fetching", "parsing", "loaded", "failed"
  loadLog,       \* history: the phases loadFonts has gone through
  timers,        \* pending setTimeout callbacks
  timeout,       \* debounce's `let timeout` (a timer id; 0 is undefined)
  copies,        \* card clicks suspended at `await navigator.clipboard.writeText`
  writes,        \* history: number of localStorage.setItem calls (saturating)
  toggleLog,     \* history: the last two toggleFavorite calls, oldest first
  lastToggle,    \* history: the last click on a favorite button: the page
                 \* before it and what the handler did to it
  untouched,     \* history: the names stored at startup and not toggled since
  deb,           \* history: the debounced calls since the wrapped function last
                 \* ran: their number, the time since the last one, its arguments
  ran,           \* history: the run of the wrapped function since the last
                 \* debounced call: the calls it answered, its arguments, the
                 \* time since the last call and that call's arguments, and
                 \* whether it rendered the active filter
  lastCopy,      \* history: the last finished copyToClipboard call
  lastClick,     \* history: the last card click handler that went past its
                 \* await: what the copy gave it, and the page as it left it
  lastRender     \* history: the filter of the last renderFonts call

vars == << fontsApi, clipboardApi, storage, fonts, currentFilter, favorites,
           inputValue, activeBtn, grid, count, toast, textAreas, initPhase,
           loadPhase, loadLog, timers, timeout, copies, writes, toggleLog, deb, ran,
           lastCopy, lastClick, lastRender, lastToggle, untouched >>

envVars == << fontsApi, clipboardApi >>
copyVars == << toast, textAreas, copies, lastCopy, lastClick >>
favVars == << favorites, storage, writes, toggleLog, lastToggle, untouched >>
debVars == << timeout, deb, ran >>
bootVars == << initPhase, loadPhase, loadLog >>

\* ------------------------------------------------------------- renderFonts
\* faulty variant: "favorites" handled like a category name
FilteredFontsByCategoryOnly(filter, fs, favs) ==
  IF filter = "all" THEN fs ELSE SelectSeq(fs, LAMBDA f : f.category = filter)

\* the working set of renderFonts(filter)
FilteredFonts(filter, fs, favs) ==
  IF filter = "favorites"
    THEN SelectSeq(fs, LAMBDA f : SetHas(favs, f.name))
    ELSE IF filter = "all" THEN fs
         ELSE SelectSeq(fs, LAMBDA f : f.category = filter)

\* faulty variant: the input value is not trimmed
CurrentTextNoTrim(val) == IF val # <<>> THEN val ELSE DefaultText

\* const currentText = input.value.trim() || "ABC"
CurrentText(val) == IF Trim(val) # <<>> THEN Trim(val) ELSE DefaultText

\* the appearance renderFonts gives a favorite button
Glyph(isFav) == IF isFav THEN "filled" ELSE "empty"
Title(isFav) == IF isFav THEN "Remove from favorites" ELSE "Add to favorites"

\* one card as renderFonts builds it
Card(font, favs, text) ==
  [ name |-> font.name, category |-> font.category, class |-> font.class,
    text |-> text,
    favorited |-> SetHas(favs, font.name),
    glyph |-> Glyph(SetHas(favs, font.name)),
    title |-> Title(SetHas(favs, font.name)),
    copied |-> FALSE ]

\* the grid renderFonts(filter) builds
Cards(filter, fs, favs, val) ==
  [ i \in 1..Len(FilteredFonts(filter, fs, favs)) |->
      Card(FilteredFonts(filter, fs, favs)[i], favs, CurrentText(val)) ]

\* statsCount.textContent = filteredFonts.length
CountOf(filter, fs, favs) == Len(FilteredFonts(filter, fs, favs))

\* grid.innerHTML = "" detaches every card: what still refers to one of them
\* (a pending "copied" reset, a suspended click) refers to a card outside
\* the document from then on, written card 0.
DetachTimers(ts) == { [t EXCEPT !.card = 0] : t \in ts }
DetachCopies(cs) == [ i \in 1..Len(cs) |-> [cs[i] EXCEPT !.card = 0] ]

\* renderFonts(filter), run on the given catalog, favorites and input value,
\* with ts the timers and cs the suspended clicks at the time of the call
RenderFonts(filter, fs, favs, val, ts, cs) ==
  /\ grid' = Cards(filter, fs, favs, val)
  /\ count' = CountOf(filter, fs, favs)
  /\ timers' = DetachTimers(ts)
  /\ copies' = DetachCopies(cs)
  /\ lastRender' = filter

\* ----------------------------------------------------------------- timers
Timer(kind, id, left, card, args) ==
  [kind |-> kind, id |-> id, left |-> left, card |-> card, args |-> args]

\* clearTimeout(id)
ClearTimeout(ts, id) == { t \in ts : t.id = 0 \/ t.id # id }

\* the id setTimeout returns: one no pending timer carries
FreshId(ts) == CHOOSE n \in 1..(Cardinality(ts) + 1) : \A t \in ts : t.id # n

NoToggle == [name |-> "none", filter |-> "none", was |-> FALSE,
             pulsing |-> FALSE, toast |-> FALSE, handler |-> FALSE,
             copied |-> TRUE, rendered |-> FALSE, gone |-> FALSE,
             dropped |-> FALSE, cards |-> TRUE, inplace |-> TRUE]

NoClick == [returned |-> "none", shown |-> FALSE, same |-> TRUE]

NoRun == [calls |-> 0, args |-> <<>>, since |-> 0, last |-> <<>>,
          active |-> FALSE]

\* ---------------------------------------------------------------- Init
\* faulty variant: loadFonts() is called when the script is evaluated
InitLoadsAtOnce ==
  /\ fontsApi \in BOOLEAN
  /\ clipboardApi \in BOOLEAN
  /\ storage \in StoredValues
  /\ fonts = <<>>
  /\ currentFilter = "all"
  /\ favorites = <<>>
  /\ inputValue = <<>>
  /\ activeBtn = "all"
  /\ grid = <<>>
  /\ count = 0
  /\ toast = FALSE
  /\ textAreas = 0
  /\ initPhase = "waiting"
  /\ loadPhase = "fetching"
  /\ loadLog = << "fetching" >>
  /\ timers = IF fontsApi THEN {}
              ELSE { Timer("startup", 0, StartupDelay, 0, <<>>) }
  /\ timeout = 0
  /\ copies = <<>>
  /\ writes = 0
  /\ toggleLog = <<>>
  /\ lastToggle = NoToggle
  /\ untouched = Elems(storage.items)
  /\ deb = [calls |-> 0, since |-> Wait, args |-> <<>>]
  /\ ran = NoRun
  /\ lastCopy = [api |-> FALSE, write |-> "none", legacy |-> "none",
                 path |-> "none", status |-> "none", result |-> FALSE,
                 inserted |-> FALSE, removed |-> FALSE, before |-> 0]
  /\ lastClick = NoClick
  /\ lastRender = "none"

\* The state when the script has been evaluated: the module-level variables
\* of lines 47-49, the startup timer of line 208 when the Font Loading API
\* is missing, and the page as its markup gives it: an empty grid, a count
\* of 0 and the "all" filter button active.
Init ==
  /\ fontsApi \in BOOLEAN
  /\ clipboardApi \in BOOLEAN
  /\ storage \in StoredValues
  /\ fonts = <<>>
  /\ currentFilter = "all"
  /\ favorites = <<>>
  /\ inputValue = <<>>
  /\ activeBtn = "all"
  /\ grid = <<>>
  /\ count = 0
  /\ toast = FALSE
  /\ textAreas = 0
  /\ initPhase = "waiting"
  /\ loadPhase = "idle"
  /\ loadLog = <<>>
  /\ timers = IF fontsApi THEN {}
              ELSE { Timer("startup", 0, StartupDelay, 0, <<>>) }
  /\ timeout = 0
  /\ copies = <<>>
  /\ writes = 0
  /\ toggleLog = <<>>
  /\ lastToggle = NoToggle
  /\ untouched = Elems(storage.items)
  /\ deb = [calls |-> 0, since |-> Wait, args |-> <<>>]
  /\ ran = NoRun
  /\ lastCopy = [api |-> FALSE, write |-> "none", legacy |-> "none",
                 path |-> "none", status |-> "none", result |-> FALSE,
                 inserted |-> FALSE, removed |-> FALSE, before |-> 0]
  /\ lastClick = NoClick
  /\ lastRender = "none"

\* --------------------------------------------------------------- debounce
\* faulty variant: the pending invocation is not cancelled
DebouncedNoClear(ts, id, args) ==
  [timers |-> ts \cup { Timer("later", FreshId(ts), Wait, 0, args) },
   timeout |-> FreshId(ts)]

\* executedFunction(...args): clearTimeout(timeout); timeout = setTimeout(later, wait)
\* with ts the pending timers and id the value of `timeout`: the timers and
\* the value of `timeout` it leaves
Debounced(ts, id, args) ==
  [timers |-> ClearTimeout(ts, id)
                \cup { Timer("later", FreshId(ClearTimeout(ts, id)), Wait, 0, args) },
   timeout |-> FreshId(ClearTimeout(ts, id))]

\* one keystroke: a character typed or deleted at the end of the field
Keystroke(old, new) ==
  \/ \E c \in Chars : new = Append(old, c)
  \/ \E c \in Chars : old = Append(new, c)

\* input "input" event: a keystroke changes the field to v, and the listener
\* debouncedUpdateLogos is called with the event (its data: the new value)
InputEvent(v) ==
  /\ Keystroke(inputValue, v)
  /\ inputValue' = v
  /\ timers' = Debounced(timers, timeout, v).timers
  /\ timeout' = Debounced(timers, timeout, v).timeout
  /\ deb' = [deb EXCEPT !.calls = Min(deb.calls + 1, MaxCalls), !.since = 0,
                        !.args = v]
  /\ ran' = NoRun
  /\ UNCHANGED << envVars, copyVars, favVars, bootVars, fonts, currentFilter,
                  activeBtn, grid, count, lastRender >>

\* later(): clearTimeout(timeout); func(...args), func being
\* function () { renderFonts(currentFilter) }
Later(t) ==
  /\ t \in timers /\ t.kind = "later" /\ t.left = 0
  /\ RenderFonts(currentFilter, fonts, favorites, inputValue,
                 ClearTimeout(timers \ {t}, timeout), copies)
  /\ ran' = [calls |-> deb.calls, args |-> t.args, since |-> deb.since,
              last |-> deb.args, active |-> lastRender' = currentFilter]
  /\ deb' = [deb EXCEPT !.calls = 0]
  /\ UNCHANGED << envVars, favVars, bootVars, fonts, currentFilter, inputValue,
                  activeBtn, toast, textAreas, lastCopy, lastClick, timeout >>

\* clearBtn click
ClearClick ==
  /\ inputValue' = <<>>
  /\ RenderFonts(currentFilter, fonts, favorites, <<>>, timers, copies)
  /\ UNCHANGED << envVars, favVars, bootVars, debVars, fonts, currentFilter,
                  activeBtn, toast, textAreas, lastCopy, lastClick >>

\* filter button click, on the button whose data-filter is f
FilterClick(f) ==
  /\ activeBtn' = f
  /\ currentFilter' = f
  /\ RenderFonts(f, fonts, favorites, inputValue, timers, copies)
  /\ UNCHANGED << envVars, favVars, bootVars, debVars, fonts, inputValue,
                  toast, textAreas, lastCopy, lastClick >>

\* ---------------------------------------------------------- favorites store
\* faulty variant: a favorite is never removed
ToggledAddOnly(favs, name) == SetAdd(favs, name)

\* toggleFavorite's update of the Set
Toggled(favs, name) ==
  IF SetHas(favs, name) THEN SetDelete(favs, name) ELSE SetAdd(favs, name)

\* saveFavorites with w writes made so far: the item it stores under
\* "fontFavorites", JSON.stringify([...favorites]), and the writes made then
SaveFavorites(favs, w) ==
  [item |-> JSONstringify(favs), writes |-> Min(w + 1, MaxWrites)]

\* faulty variant: the Set is saved before it is updated
ToggleFavoriteSaveFirst(favs, name, w) ==
  [favorites |-> Toggled(favs, name), saved |-> SaveFavorites(favs, w)]

\* toggleFavorite(name) up to its save: the Set and what is stored
ToggleFavorite(favs, name, w) ==
  [favorites |-> Toggled(favs, name),
   saved |-> SaveFavorites(Toggled(favs, name), w)]

\* faulty variant: the class is toggled, the glyph and the title are left
ButtonAfterClickClassOnly(card, favs) ==
  [card EXCEPT !.favorited = ~card.favorited]

\* the favorite button of a card after its click handler ran in place
ButtonAfterClick(card, favs) ==
  [card EXCEPT !.favorited = ~card.favorited,
               !.glyph = Glyph(SetHas(favs, card.name)),
               !.title = Title(SetHas(favs, card.name))]

\* the fonts of the cards of a grid, in document order
CardNames(g) == [ j \in 1..Len(g) |-> g[j].name ]

\* the pending timers but for the cards they refer to
Schedule(ts) == { [t EXCEPT !.card = 0] : t \in ts }

\* the record kept of a click on the favorite button of the i-th card.
\* Before the click: the font, the active filter, whether the font was a
\* favorite, whether some card was marked "copied", whether the toast was
\* visible. What the handler did: handler, it ran the card's click handler
\* (a copy was started or finished, the toast or a timer changed); copied,
\* no card was given or lost a "copied" mark (the cards of the grid have the
\* marks they had or, the grid having been rebuilt under "favorites", are new
\* cards without a mark); rendered,
\* the grid and the count are those of renderFonts(currentFilter); gone, no
\* card of the font is left; dropped, the count is the number of cards and
\* is lower than it was; cards, the grid holds the cards it held; inplace,
\* the pending timers and suspended clicks refer to the cards they referred
\* to and no render was counted.
ToggleRecord(i) ==
  [name |-> grid[i].name,
   filter |-> currentFilter,
   was |-> SetHas(favorites, grid[i].name),
   pulsing |-> \E j \in 1..Len(grid) : grid[j].copied,
   toast |-> toast,
   handler |-> ~ /\ Len(copies') = Len(copies)
                /\ \A k \in 1..Len(copies) : copies'[k].name = copies[k].name
                /\ lastCopy' = lastCopy /\ lastClick' = lastClick
                /\ textAreas' = textAreas /\ toast' = toast
                /\ Schedule(timers') = Schedule(timers),
   copied |-> IF currentFilter = "favorites"
                THEN \A j \in 1..Len(grid') : ~grid'[j].copied
                ELSE /\ Len(grid') = Len(grid)
                     /\ \A j \in 1..Len(grid) : grid'[j].copied = grid[j].copied,
   rendered |-> /\ grid' = Cards(currentFilter, fonts, favorites', inputValue)
                /\ count' = Len(grid'),
   gone |-> \A j \in 1..Len(grid') : grid'[j].name # grid[i].name,
   dropped |-> count' = Len(grid') /\ count' < count,
   cards |-> CardNames(grid') = CardNames(grid) /\ count' = count,
   inplace |-> timers' = timers /\ copies' = copies /\ lastRender' = lastRender]

\* faulty variant: toggleFavorite never re-renders
FavoriteClickNoRerender(i) ==
  /\ i \in 1..Len(grid)
  /\ favorites' = ToggleFavorite(favorites, grid[i].name, writes).favorites
  /\ storage' = ToggleFavorite(favorites, grid[i].name, writes).saved.item
  /\ writes' = ToggleFavorite(favorites, grid[i].name, writes).saved.writes
  /\ toggleLog' =
       (IF toggleLog = <<>> THEN <<>> ELSE << toggleLog[Len(toggleLog)] >>)
         \o << [name |-> grid[i].name, before |-> favorites, writes |-> writes] >>
  /\ grid' = [grid EXCEPT ![i] = ButtonAfterClick(grid[i], favorites')]
  /\ UNCHANGED << count, timers, copies, lastRender >>
  /\ UNCHANGED << envVars, bootVars, debVars, fonts, currentFilter, inputValue,
                  activeBtn, toast, textAreas, lastCopy, lastClick >>
  /\ lastToggle' = ToggleRecord(i)
  /\ untouched' = untouched \ {grid[i].name}

\* faulty variant: without e.stopPropagation() the click goes on to the card,
\* whose handler starts a copy
FavoriteClickPropagates(i) ==
  /\ i \in 1..Len(grid)
  /\ favorites' = ToggleFavorite(favorites, grid[i].name, writes).favorites
  /\ storage' = ToggleFavorite(favorites, grid[i].name, writes).saved.item
  /\ writes' = ToggleFavorite(favorites, grid[i].name, writes).saved.writes
  /\ toggleLog' =
       (IF toggleLog = <<>> THEN <<>> ELSE << toggleLog[Len(toggleLog)] >>)
         \o << [name |-> grid[i].name, before |-> favorites, writes |-> writes] >>
  /\ IF currentFilter = "favorites"
       THEN RenderFonts(currentFilter, fonts, favorites', inputValue, timers,
                        Append(copies, [card |-> i, name |-> grid[i].name]))
       ELSE /\ grid' = [grid EXCEPT ![i] = ButtonAfterClick(grid[i], favorites')]
            /\ copies' = Append(copies, [card |-> i, name |-> grid[i].name])
            /\ UNCHANGED << count, timers, lastRender >>
  /\ UNCHANGED << envVars, bootVars, debVars, fonts, currentFilter, inputValue,
                  activeBtn, toast, textAreas, lastCopy, lastClick >>
  /\ lastToggle' = ToggleRecord(i)
  /\ untouched' = untouched \ {grid[i].name}

\* click on the favorite button of the i-th card of the grid:
\* e.stopPropagation(); toggleFavorite(font.name); update the button
FavoriteClick(i) ==
  /\ i \in 1..Len(grid)
  /\ favorites' = ToggleFavorite(favorites, grid[i].name, writes).favorites
  /\ storage' = ToggleFavorite(favorites, grid[i].name, writes).saved.item
  /\ writes' = ToggleFavorite(favorites, grid[i].name, writes).saved.writes
  /\ toggleLog' =
       (IF toggleLog = <<>> THEN <<>> ELSE << toggleLog[Len(toggleLog)] >>)
         \o << [name |-> grid[i].name, before |-> favorites, writes |-> writes] >>
  /\ IF currentFilter = "favorites"
       THEN RenderFonts(currentFilter, fonts, favorites', inputValue, timers, copies)
       ELSE /\ grid' = [grid EXCEPT ![i] = ButtonAfterClick(grid[i], favorites')]
            /\ UNCHANGED << count, timers, copies, lastRender >>
  /\ UNCHANGED << envVars, bootVars, debVars, fonts, currentFilter, inputValue,
                  activeBtn, toast, textAreas, lastCopy, lastClick >>
  /\ lastToggle' = ToggleRecord(i)
  /\ untouched' = untouched \ {grid[i].name}

\* ------------------------------------------------------------ initialization
\* faulty variant: the stored item is not read
LoadFavoritesReadsNothing(stored, favs) == favs

\* loadFavorites() on the stored item: the Set it leaves in `favorites`
LoadFavorites(stored, favs) ==
  IF stored.kind = "array" THEN NewSet(stored.items) ELSE favs

\* whether loadFavorites() throws (JSON.parse on a text that is not JSON)
LoadFavoritesThrows(stored) == stored.kind = "malformed"

\* the callback of document.fonts.ready.then / of the 100 ms timer:
\* loadFavorites(); loadFonts() (which runs up to its first await)
InitCallback ==
  /\ IF LoadFavoritesThrows(storage)
       THEN /\ initPhase' = "crashed"
            /\ UNCHANGED << favorites, loadPhase, loadLog >>
       ELSE /\ favorites' = LoadFavorites(storage, favorites)
            /\ initPhase' = "done"
            /\ loadPhase' = "fetching"
            /\ loadLog' = Append(loadLog, "fetching")
  /\ UNCHANGED << envVars, copyVars, debVars, storage, writes, toggleLog,
                  lastToggle, untouched, fonts,
                  currentFilter, inputValue, activeBtn, grid, count, lastRender >>

\* document.fonts.ready is fulfilled
FontsReady ==
  /\ fontsApi /\ initPhase = "waiting"
  /\ InitCallback
  /\ UNCHANGED timers

\* the 100 ms startup timer runs
StartupTimer(t) ==
  /\ t \in timers /\ t.kind = "startup" /\ t.left = 0
  /\ timers' = timers \ {t}
  /\ InitCallback

\* ------------------------------------------------------------- loadFonts
\* fetch("fonts.json") is fulfilled
FetchResolve ==
  /\ loadPhase = "fetching"
  /\ loadPhase' = "parsing"
  /\ loadLog' = Append(loadLog, "parsing")
  /\ UNCHANGED << envVars, copyVars, favVars, debVars, initPhase, fonts,
                  currentFilter, inputValue, activeBtn, grid, count, timers,
                  lastRender >>

\* faulty variant: the catch block fetches again
LoadRejectRetry ==
  /\ loadPhase \in {"fetching", "parsing"}
  /\ loadPhase' = "fetching"
  /\ loadLog' = loadLog \o << "failed", "fetching" >>
  /\ UNCHANGED << envVars, copyVars, favVars, debVars, initPhase, fonts,
                  currentFilter, inputValue, activeBtn, grid, count, timers,
                  lastRender >>

\* fetch or response.json() is rejected: the catch block logs the error
LoadReject ==
  /\ loadPhase \in {"fetching", "parsing"}
  /\ loadPhase' = "failed"
  /\ loadLog' = Append(loadLog, "failed")
  /\ UNCHANGED << envVars, copyVars, favVars, debVars, initPhase, fonts,
                  currentFilter, inputValue, activeBtn, grid, count, timers,
                  lastRender >>

\* the filter loadFonts renders with: renderFonts() takes the default "all"
LoadFilter(cur) == "all"

\* response.json() is fulfilled with the catalog cat: fonts = cat; renderFonts()
JsonResolve(cat) ==
  /\ loadPhase = "parsing"
  /\ loadPhase' = "loaded"
  /\ loadLog' = Append(loadLog, "loaded")
  /\ fonts' = cat
  /\ RenderFonts(LoadFilter(currentFilter), cat, favorites, inputValue, timers, copies)
  /\ UNCHANGED << envVars, favVars, debVars, initPhase, currentFilter,
                  inputValue, activeBtn, toast, textAreas, lastCopy, lastClick >>

\* ------------------------------------------------------------------- time
\* d milliseconds pass; no pending timer is overdue
Tick(d) ==
  /\ d > 0
  /\ \A t \in timers : d <= t.left
  /\ timers' = { [t EXCEPT !.left = t.left - d] : t \in timers }
  /\ deb' = [deb EXCEPT !.since = Min(deb.since + d, Wait)]
  /\ UNCHANGED << envVars, copyVars, favVars, bootVars, fonts, currentFilter,
                  inputValue, activeBtn, grid, count, timeout, ran,
                  lastRender >>

\* -------------------------------------------------------- copyToClipboard
\* What the legacy path meets: the step that throws, or what
\* document.execCommand("copy") returns.
LegacyOutcomes ==
  {"appendThrows", "focusThrows", "selectThrows", "execThrows", "execTrue", "execFalse"}

\* faulty variant: the fallback returns true whatever execCommand returned
FallbackIgnoresOutcome(legacy) ==
  CASE legacy = "appendThrows" ->
         [path |-> "legacy", status |-> "threw", result |-> FALSE,
          inserted |-> FALSE, removed |-> FALSE]
    [] legacy \in {"focusThrows", "selectThrows"} ->
         [path |-> "legacy", status |-> "threw", result |-> FALSE,
          inserted |-> TRUE, removed |-> FALSE]
    [] legacy = "execThrows" ->
         [path |-> "legacy", status |-> "returned", result |-> FALSE,
          inserted |-> TRUE, removed |-> TRUE]
    [] legacy \in {"execTrue", "execFalse"} ->
         [path |-> "legacy", status |-> "returned", result |-> TRUE,
          inserted |-> TRUE, removed |-> TRUE]

\* lines 27-43: the fallback, from createElement to its return or throw
Fallback(legacy) ==
  CASE legacy = "appendThrows" ->
         [path |-> "legacy", status |-> "threw", result |-> FALSE,
          inserted |-> FALSE, removed |-> FALSE]
    [] legacy \in {"focusThrows", "selectThrows"} ->
         [path |-> "legacy", status |-> "threw", result |-> FALSE,
          inserted |-> TRUE, removed |-> FALSE]
    [] legacy = "execThrows" ->
         [path |-> "legacy", status |-> "returned", result |-> FALSE,
          inserted |-> TRUE, removed |-> TRUE]
    [] legacy = "execTrue" ->
         [path |-> "legacy", status |-> "returned", result |-> TRUE,
          inserted |-> TRUE, removed |-> TRUE]
    [] legacy = "execFalse" ->
         [path |-> "legacy", status |-> "returned", result |-> FALSE,
          inserted |-> TRUE, removed |-> TRUE]

\* faulty variant: a rejected writeText makes the call return false at once
CopyToClipboardNoFallback(api, write, legacy) ==
  IF api
    THEN [path |-> "modern", status |-> "returned", result |-> (write = "ok"),
          inserted |-> FALSE, removed |-> FALSE]
    ELSE Fallback(legacy)

\* copyToClipboard(text) as a whole: api is the test of line 16, write what
\* became of writeText ("none" when it was not called), legacy what the
\* fallback meets if it runs. path tells where the call ended: at line 20
\* ("modern") or in the fallback ("legacy").
CopyToClipboard(api, write, legacy) ==
  IF api /\ write = "ok"
    THEN [path |-> "modern", status |-> "returned", result |-> TRUE,
          inserted |-> FALSE, removed |-> FALSE]
    ELSE Fallback(legacy)

\* the record kept of a finished call: its circumstances and its outcome
CopyRecord(api, write, legacy) ==
  [api |-> api, write |-> write,
   legacy |-> IF CopyToClipboard(api, write, legacy).path = "legacy"
                THEN legacy ELSE "none",
   path |-> CopyToClipboard(api, write, legacy).path,
   status |-> CopyToClipboard(api, write, legacy).status,
   result |-> CopyToClipboard(api, write, legacy).result,
   inserted |-> CopyToClipboard(api, write, legacy).inserted,
   removed |-> CopyToClipboard(api, write, legacy).removed,
   before |-> textAreas]

\* textareas in document.body once the call has finished
TextAreasAfter(n, res) ==
  IF res.inserted /\ ~res.removed THEN Min(n + 1, MaxLeaked) ELSE n

\* faulty variant: showToast shows the toast and never schedules its hiding
AfterCopyNoHide(res, c, ts) ==
  IF res.status = "returned" /\ res.result
    THEN /\ grid' = IF c = 0 THEN grid ELSE [grid EXCEPT ![c].copied = TRUE]
         /\ toast' = TRUE
         /\ timers' = ts \cup { Timer("copied", 0, CopiedDelay, c, <<>>) }
    ELSE UNCHANGED << grid, toast, timers >>

\* faulty variant: the handler does not test `success`
AfterCopyAlways(res, c, ts) ==
  /\ grid' = IF c = 0 THEN grid ELSE [grid EXCEPT ![c].copied = TRUE]
  /\ toast' = TRUE
  /\ timers' = ts \cup { Timer("toast", 0, ToastDelay, 0, <<>>),
                         Timer("copied", 0, CopiedDelay, c, <<>>) }

\* the rest of the card's click handler, after `await copyToClipboard(...)`
\* gave res, for the card c (0: a card no longer in the grid):
\* if (success) { card.classList.add("copied"); showToast(); setTimeout(..., 600) }
AfterCopy(res, c, ts) ==
  IF res.status = "returned" /\ res.result
    THEN /\ grid' = IF c = 0 THEN grid ELSE [grid EXCEPT ![c].copied = TRUE]
         /\ toast' = TRUE
         /\ timers' = ts \cup { Timer("toast", 0, ToastDelay, 0, <<>>),
                                Timer("copied", 0, CopiedDelay, c, <<>>) }
    ELSE UNCHANGED << grid, toast, timers >>

\* the record kept of a click handler that went past its await with res on
\* the card c (0: a card no longer in the grid): what copyToClipboard gave it
\* ("true", "false", or "threw" when the promise was rejected) and the page
\* as the handler left it. shown: the toast is visible, its hiding and the
\* reset of "copied" have just been scheduled and the card, if in the grid,
\* is marked "copied"; same: the toast, the timers and the grid are as they
\* were.
ClickRecord(res, c) ==
  [returned |-> IF res.status = "threw" THEN "threw"
                ELSE IF res.result THEN "true" ELSE "false",
   shown |-> /\ toast'
             /\ Timer("toast", 0, ToastDelay, 0, <<>>) \in timers'
             /\ Timer("copied", 0, CopiedDelay, c, <<>>) \in timers'
             /\ (c # 0 => grid'[c].copied),
   same |-> toast' = toast /\ timers' = timers /\ grid' = grid]

\* room for one more click: the toasts pending or still to come are bounded
Room ==
  Len(copies) + Cardinality({ t \in timers : t.kind = "toast" }) < MaxToasts

\* click on the i-th card of the grid, the Clipboard API being usable:
\* the handler is suspended at `await navigator.clipboard.writeText(text)`
CardClickApi(i) ==
  /\ i \in 1..Len(grid) /\ clipboardApi /\ Room
  /\ copies' = Append(copies, [card |-> i, name |-> grid[i].name])
  /\ UNCHANGED << envVars, favVars, bootVars, debVars, fonts, currentFilter,
                  inputValue, activeBtn, grid, count, toast, textAreas, timers,
                  lastCopy, lastClick, lastRender >>

\* click on the i-th card of the grid, the Clipboard API not being usable:
\* the fallback runs at once and the handler goes on with its result
CardClickLegacy(i, legacy) ==
  /\ i \in 1..Len(grid) /\ ~clipboardApi /\ Room
  /\ lastCopy' = CopyRecord(FALSE, "none", legacy)
  /\ textAreas' = TextAreasAfter(textAreas, CopyToClipboard(FALSE, "none", legacy))
  /\ AfterCopy(CopyToClipboard(FALSE, "none", legacy), i, timers)
  /\ lastClick' = ClickRecord(CopyToClipboard(FALSE, "none", legacy), i)
  /\ UNCHANGED << envVars, favVars, bootVars, debVars, fonts, currentFilter,
                  inputValue, activeBtn, count, copies, lastRender >>

Without(cs, k) == SubSeq(cs, 1, k - 1) \o SubSeq(cs, k + 1, Len(cs))

\* writeText of the k-th suspended click is fulfilled: return true
WriteResolve(k) ==
  /\ k \in 1..Len(copies)
  /\ copies' = Without(copies, k)
  /\ lastCopy' = CopyRecord(TRUE, "ok", "execTrue")
  /\ textAreas' = TextAreasAfter(textAreas, CopyToClipboard(TRUE, "ok", "execTrue"))
  /\ AfterCopy(CopyToClipboard(TRUE, "ok", "execTrue"), copies[k].card, timers)
  /\ lastClick' = ClickRecord(CopyToClipboard(TRUE, "ok", "execTrue"), copies[k].card)
  /\ UNCHANGED << envVars, favVars, bootVars, debVars, fonts, currentFilter,
                  inputValue, activeBtn, count, lastRender >>

\* writeText of the k-th suspended click is rejected: the catch block warns
\* and the fallback runs
WriteReject(k, legacy) ==
  /\ k \in 1..Len(copies)
  /\ copies' = Without(copies, k)
  /\ lastCopy' = CopyRecord(TRUE, "failed", legacy)
  /\ textAreas' = TextAreasAfter(textAreas, CopyToClipboard(TRUE, "failed", legacy))
  /\ AfterCopy(CopyToClipboard(TRUE, "failed", legacy), copies[k].card, timers)
  /\ lastClick' = ClickRecord(CopyToClipboard(TRUE, "failed", legacy), copies[k].card)
  /\ UNCHANGED << envVars, favVars, bootVars, debVars, fonts, currentFilter,
                  inputValue, activeBtn, count, lastRender >>

\* showToast's timer runs: toast.classList.remove("show")
ToastTimer(t) ==
  /\ t \in timers /\ t.kind = "toast" /\ t.left = 0
  /\ timers' = timers \ {t}
  /\ toast' = FALSE
  /\ UNCHANGED << envVars, favVars, bootVars, debVars, fonts, currentFilter,
                  inputValue, activeBtn, grid, count, textAreas, copies,
                  lastCopy, lastClick, lastRender >>

\* the click handler's timer runs: card.classList.remove("copied")
CopiedTimer(t) ==
  /\ t \in timers /\ t.kind = "copied" /\ t.left = 0
  /\ timers' = timers \ {t}
  /\ grid' = IF t.card = 0 THEN grid ELSE [grid EXCEPT ![t.card].copied = FALSE]
  /\ UNCHANGED << envVars, favVars, bootVars, debVars, fonts, currentFilter,
                  inputValue, activeBtn, count, toast, textAreas, copies,
                  lastCopy, lastClick, lastRender >>

\* ------------------------------------------------------------ specification
Steps == {TickStep} \cup { t.left : t \in timers }

\* The page as a whole.
Next ==
  \/ FontsReady
  \/ \E t \in timers : StartupTimer(t)
  \/ FetchResolve
  \/ LoadReject
  \/ \E cat \in Catalogs : JsonResolve(cat)
  \/ \E f \in Filters : FilterClick(f)
  \/ \E v \in InputValues : InputEvent(v)
  \/ \E t \in timers : Later(t)
  \/ ClearClick
  \/ \E i \in 1..MaxFonts : FavoriteClick(i)
  \/ \E i \in 1..MaxFonts : CardClickApi(i)
  \/ \E i \in 1..MaxFonts, o \in LegacyOutcomes : CardClickLegacy(i, o)
  \/ \E k \in 1..MaxToasts : WriteResolve(k)
  \/ \E k \in 1..MaxToasts, o \in LegacyOutcomes : WriteReject(k, o)
  \/ \E t \in timers : ToastTimer(t)
  \/ \E t \in timers : CopiedTimer(t)
  \/ \E d \in Steps : Tick(d)

Spec == Init /\ [][Next]_vars

\* The specifications below are the page with the user doing part of what
\* the page allows, from initial states of the page.

\* Startup, filters and typing: no favorite button and no card is clicked.
NextPage ==
  \/ FontsReady
  \/ \E t \in timers : StartupTimer(t)
  \/ FetchResolve
  \/ LoadReject
  \/ \E cat \in Catalogs : JsonResolve(cat)
  \/ \E f \in Filters : FilterClick(f)
  \/ \E v \in InputValues : InputEvent(v)
  \/ \E t \in timers : Later(t)
  \/ ClearClick
  \/ \E d \in Steps : Tick(d)

InitPage == Init /\ clipboardApi

SpecPage == InitPage /\ [][NextPage]_vars

\* Startup, filters and favorites: nothing is typed and no card is clicked.
NextFavorites ==
  \/ FontsReady
  \/ \E t \in timers : StartupTimer(t)
  \/ FetchResolve
  \/ LoadReject
  \/ \E cat \in Catalogs : JsonResolve(cat)
  \/ \E f \in Filters : FilterClick(f)
  \/ \E i \in 1..MaxFonts : FavoriteClick(i)
  \/ \E d \in Steps : Tick(d)

SpecFavorites == InitPage /\ [][NextFavorites]_vars

\* Filters and card clicks: the Font Loading API is supported, nothing is
\* stored at startup, nothing is typed and no favorite button is clicked.
NextCopy ==
  \/ FontsReady
  \/ FetchResolve
  \/ \E cat \in Catalogs : JsonResolve(cat)
  \/ \E f \in Filters : FilterClick(f)
  \/ \E i \in 1..MaxFonts : CardClickApi(i)
  \/ \E i \in 1..MaxFonts, o \in LegacyOutcomes : CardClickLegacy(i, o)
  \/ \E k \in 1..MaxToasts : WriteResolve(k)
  \/ \E k \in 1..MaxToasts, o \in LegacyOutcomes : WriteReject(k, o)
  \/ \E t \in timers : ToastTimer(t)
  \/ \E t \in timers : CopiedTimer(t)
  \/ \E d \in Steps : Tick(d)

InitCopy == Init /\ fontsApi /\ storage = Absent

SpecCopy == InitCopy /\ [][NextCopy]_vars

\* The filters "all", "serif" and "favorites", favorites and card clicks: the
\* Font Loading API and the Clipboard API are supported and writeText
\* succeeds, nothing is stored at startup, nothing is typed, and the user acts
\* at the moments a timer is due.
NextCard ==
  \/ FontsReady
  \/ FetchResolve
  \/ \E cat \in Catalogs : JsonResolve(cat)
  \/ \E f \in {"all", "serif", "favorites"} : FilterClick(f)
  \/ \E i \in 1..MaxFonts : FavoriteClick(i)
  \/ \E i \in 1..MaxFonts : CardClickApi(i)
  \/ \E k \in 1..MaxToasts : WriteResolve(k)
  \/ \E t \in timers : ToastTimer(t)
  \/ \E t \in timers : CopiedTimer(t)
  \/ \E t \in timers : Tick(t.left)

InitCard == Init /\ fontsApi /\ clipboardApi /\ storage = Absent

SpecCard == InitCard /\ [][NextCard]_vars

\* =================================================================== claims
\* the filter predicate of the specification: which fonts a filter lets pass
Passes(f, font) ==
  \/ f = "all"
  \/ f = "favorites" /\ font.name \in Elems(favorites)
  \/ f \notin {"all", "favorites"} /\ font.category = f

\* the positions of the catalog whose font passes f, and the k-th of them
MatchIdx(f) == { i \in 1..Len(fonts) : Passes(f, fonts[i]) }
KthMatch(f, k) ==
  CHOOSE i \in MatchIdx(f) : Cardinality({ j \in MatchIdx(f) : j < i }) = k - 1

\* the grid shows exactly the fonts passing f, in catalog order
GridShows(f) ==
  /\ Len(grid) = Cardinality(MatchIdx(f))
  /\ \A k \in 1..Len(grid) :
       /\ grid[k].name = fonts[KthMatch(f, k)].name
       /\ grid[k].category = fonts[KthMatch(f, k)].category
       /\ grid[k].class = fonts[KthMatch(f, k)].class

\* C1 (as stated): in every reachable state the cards of the grid are exactly
\* the catalog entries passing the active filter currentFilter, also when the
\* catalog load completes after a non-default filter was clicked.
C1_GridShowsActiveFilter == GridShows(currentFilter)

\* C2: renderFonts(f) leaves exactly one card per catalog entry matching f,
\* in catalog order, and nothing else, and the displayed count is the number
\* of cards (0 for an empty working set); whenever a render has happened the
\* grid and the count are those of the last rendered filter.
C2_RenderShowsMatches ==
  lastRender # "none" =>
    /\ GridShows(lastRender)
    /\ count = Len(grid)
    /\ count = Cardinality(MatchIdx(lastRender))

\* C2 witness: the favorites filter was rendered on a two-font catalog, and
\* only the second font is a favorite.
C2_Witness ==
  /\ lastRender = "favorites" /\ Len(fonts) = 2
  /\ Len(grid) = 1 /\ count = 1 /\ grid[1].name = fonts[2].name
  /\ fonts[1].name # fonts[2].name

\* the pending invocations of `later`
PendingLater == { t \in timers : t.kind = "later" }

\* C3: a debounced call cancels the pending invocation, so at most one is
\* pending: exactly one while calls await a run, due Wait after the last call
\* with that call's arguments; and the wrapped function has run only then,
\* once for all the calls awaiting, Wait after the last of them, with its
\* arguments.
C3_DebounceRunsOnceAfterLastCall ==
  /\ Cardinality(PendingLater) = (IF deb.calls > 0 THEN 1 ELSE 0)
  /\ \A t \in PendingLater :
       t.left = Wait - deb.since /\ t.args = deb.args /\ t.id = timeout
  /\ ran # NoRun =>
       /\ ran.calls >= 1 /\ deb.calls = 0
       /\ ran.since = Wait
       /\ ran.args = ran.last /\ ran.last = deb.args

\* C3 witness: one run has answered at least two calls, with the arguments of
\* the last of them, and nothing is pending.
C3_Witness ==
  /\ ran.calls >= 2 /\ ran.args = deb.args /\ ran.args # <<>>
  /\ deb.since = Wait /\ PendingLater = {}

\* C4: two consecutive toggles of one name leave the FavoriteSet as it was
\* before the first, and make exactly two writes to localStorage.
C4_TwoTogglesRestore ==
  (Len(toggleLog) = 2 /\ toggleLog[1].name = toggleLog[2].name) =>
    /\ Elems(favorites) = Elems(toggleLog[1].before)
    /\ Elems(toggleLog[2].before) =
         (IF toggleLog[1].name \in Elems(toggleLog[1].before)
            THEN Elems(toggleLog[1].before) \ {toggleLog[1].name}
            ELSE Elems(toggleLog[1].before) \cup {toggleLog[1].name})
    /\ (toggleLog[1].writes + 2 <= MaxWrites => writes = toggleLog[1].writes + 2)

\* C4 witness: a favorite was toggled off and on again, two writes counted.
C4_Witness ==
  /\ Len(toggleLog) = 2 /\ toggleLog[1].name = toggleLog[2].name
  /\ toggleLog[1].name \in Elems(toggleLog[1].before)
  /\ toggleLog[1].writes + 2 <= MaxWrites
  /\ writes = toggleLog[1].writes + 2

\* C5: after every toggle the array stored under the favorites key holds
\* exactly the names of the in-memory FavoriteSet.
C5_StorageMatchesFavorites ==
  toggleLog # <<>> =>
    /\ storage.kind = "array"
    /\ Elems(storage.items) = Elems(favorites)
    /\ Len(storage.items) = Cardinality(Elems(favorites))

\* C5 witness: after two toggles the stored array holds the two favorites.
C5_Witness ==
  /\ Len(toggleLog) = 2 /\ Cardinality(Elems(favorites)) = 2
  /\ Elems(storage.items) = Elems(favorites)

\* a finished copy left no temporary field in the document
NoFieldRemains == ~(lastCopy.inserted /\ ~lastCopy.removed)

\* the case of the legacy path: the Clipboard API is not usable
LegacyCase ==
  /\ lastCopy.status # "none" /\ ~lastCopy.api => lastCopy.path = "legacy"
  /\ (~lastCopy.api /\ lastCopy.legacy \in {"execTrue", "execFalse"}) =>
       /\ lastCopy.inserted /\ lastCopy.removed /\ textAreas = lastCopy.before
       /\ lastCopy.status = "returned"
       /\ lastCopy.result = (lastCopy.legacy = "execTrue")

C7_FallbackNeverThrows ==
  lastCopy.status # "none" =>
    /\ lastCopy.status = "returned"
    /\ (lastCopy.legacy \in {"appendThrows", "focusThrows", "selectThrows",
                             "execThrows"} => ~lastCopy.result)
    /\ NoFieldRemains

\* C8: when writeText was attempted and failed, copy did not end there: it
\* ended in the legacy path, and its result, when it returns one, is true
\* exactly if the legacy copy command reported success.
C8_WriteFailureFallsBack ==
  lastCopy.write = "failed" =>
    /\ lastCopy.api
    /\ lastCopy.path = "legacy"
    /\ (lastCopy.status = "returned" =>
          lastCopy.result = (lastCopy.legacy = "execTrue"))

\* C8 witness: writeText failed and the legacy command succeeded: true.
C8_Witness ==
  /\ lastCopy.write = "failed" /\ lastCopy.legacy = "execTrue"
  /\ lastCopy.status = "returned" /\ lastCopy.result

\* C9 (as stated): whatever is stored under the favorites key, loading the
\* favorites does not crash, absent or unparsable data gives an empty
\* FavoriteSet, and the initialization goes on to load the catalog.
C9_StartupSurvivesStoredData ==
  /\ initPhase # "crashed"
  /\ (initPhase # "waiting" /\ storage.kind \in {"absent", "malformed"}) =>
       favorites = <<>>
  /\ initPhase # "waiting" => loadPhase # "idle"

\* C10: once the catalog load has failed the catalog is empty, the grid holds
\* no card and the count is 0, whatever events follow; the load is not
\* retried: fetch was called once and the failed load stays failed.
C10_FailedLoadLeavesNothing ==
  (\E i \in 1..Len(loadLog) : loadLog[i] = "failed") =>
    /\ loadPhase = "failed"
    /\ fonts = <<>> /\ grid = <<>> /\ count = 0
    /\ Cardinality({ i \in 1..Len(loadLog) : loadLog[i] = "fetching" }) = 1

\* C10 witness: the load has failed, and a filter was rendered and typing
\* was answered by a render.
C10_Witness ==
  /\ loadPhase = "failed" /\ lastRender = "serif" /\ currentFilter = "serif"
  /\ ran.calls > 0 /\ inputValue # <<>> /\ grid = <<>> /\ count = 0

\* the pending hide timers of showToast
PendingHide == { t \in timers : t.kind = "toast" }

\* C11 (as stated): a show() while the toast is visible re-arms the hide
\* timer: the toast is visible as long as ToastDelay has not passed since the
\* most recent show() (the hide timer of that call is pending), and hidden
\* once it has (no hide timer is pending).
C11_ToastLastCallWins ==
  /\ PendingHide # {} => toast
  /\ PendingHide = {} => ~toast

\* C11 (amended): every show() schedules its own hiding ToastDelay later and
\* cancels none: the toast is visible only while a hide timer is pending, so
\* it is hidden at the latest ToastDelay after the most recent show() and
\* from then on, and it may be hidden earlier, by the timer of an earlier
\* show().
C11_ToastHiddenByLastDelay ==
  /\ toast => PendingHide # {}
  /\ \A t \in PendingHide : t.left <= ToastDelay

\* C11 witness: show() was called again while the toast was visible: two
\* hide timers are pending, the older one due first, and the toast is visible.
C11_Witness ==
  /\ toast
  /\ \E t, u \in PendingHide : t.left < u.left /\ u.left = ToastDelay

\* C12: a card click shows the toast and applies the "copied" state exactly
\* when copyToClipboard returned true for it: then the toast is visible, its
\* hiding and the reset of "copied" are scheduled and the card, if still in
\* the grid, is marked; when it returned false (or threw) the handler leaves
\* the toast, the timers and every card as they were.
C12_ToastIffCopyTrue ==
  lastClick.returned # "none" =>
    /\ lastClick.returned = "true" => lastClick.shown
    /\ lastClick.returned # "true" => lastClick.same
    /\ lastClick.returned = "true" <=> (lastCopy.status = "returned" /\ lastCopy.result)

\* C12 witness: the legacy command reported failure, copy returned false and
\* the click left the toast hidden and no card marked.
C12_Witness ==
  /\ lastClick.returned = "false" /\ lastCopy.legacy = "execFalse"
  /\ lastClick.same /\ ~toast /\ PendingHide = {}
  /\ \A i \in 1..Len(grid) : ~grid[i].copied

StartupPending == \E t \in timers : t.kind = "startup"

\* C14: as long as the readiness signal has not fired (Font Loading API) or
\* the startup delay has not elapsed and run its callback (no such API), the
\* catalog load has not started, the catalog is empty and the grid holds no
\* card, whatever was clicked or typed; and the startup timer is pending
\* exactly until then, with at most StartupDelay left.
C14_NoLoadBeforeReady ==
  /\ (initPhase = "waiting" \/ StartupPending) =>
       /\ loadPhase = "idle" /\ loadLog = <<>>
       /\ fonts = <<>> /\ grid = <<>>
  /\ StartupPending <=> (~fontsApi /\ initPhase = "waiting")
  /\ \A t \in timers : t.kind = "startup" => t.left <= StartupDelay

\* C14 witness: before the readiness signal a filter was clicked and typing
\* was answered by a render, and the grid is still empty.
C14_Witness ==
  /\ initPhase = "waiting" /\ fontsApi
  /\ currentFilter = "favorites" /\ lastRender = "favorites"
  /\ ran.calls > 0 /\ inputValue # <<>> /\ grid = <<>> /\ loadLog = <<>>

\* the sample text the specification asks for: the value between its first
\* and its last character that is not whitespace, or the default text when
\* it has none
Inked(v) == { i \in 1..Len(v) : v[i] # " " }
SampleText(v) ==
  IF Inked(v) = {} THEN << "A", "B", "C" >>
  ELSE SubSeq(v, CHOOSE i \in Inked(v) : \A j \in Inked(v) : i <= j,
                 CHOOSE i \in Inked(v) : \A j \in Inked(v) : j <= i)

\* C15: while input events await their render, it is due exactly Wait after
\* the last of them; a render caused by typing has happened only then, Wait
\* after the last input event, with the active filter; and once no input
\* event awaits its render every card of the grid shows the input value
\* trimmed, or the default text when that is empty.
C15_TypingRendersAfterQuiet ==
  /\ deb.calls > 0 =>
       /\ deb.since <= Wait
       /\ \E t \in PendingLater : t.left = Wait - deb.since
  /\ ran # NoRun => ran.since = Wait /\ ran.active /\ deb.calls = 0
  /\ deb.calls = 0 =>
       \A i \in 1..Len(grid) : grid[i].text = SampleText(inputValue)

\* C15 witness: after a burst of two input events the quiet period ended and
\* the render showed, under the "serif" filter, the value " x" trimmed.
C15_Witness ==
  /\ ran.calls >= 2 /\ deb.calls = 0
  /\ inputValue = << " ", "x" >> /\ currentFilter = "serif"
  /\ Len(grid) = 1 /\ grid[1].text = << "x" >> /\ grid[1].category = "serif"

\* C16: under the "favorites" filter a toggle re-renders with that filter,
\* and after un-favoriting a font no card of it is left and the count has
\* dropped to the number of cards left; under any other filter a toggle does
\* not re-render: the grid holds the cards it held, with their marks, and
\* what was pending still refers to them.
C16_ToggleRerendersUnderFavorites ==
  lastToggle # NoToggle =>
    /\ lastToggle.filter = "favorites" =>
         /\ lastToggle.rendered
         /\ lastToggle.was => (lastToggle.gone /\ lastToggle.dropped)
    /\ lastToggle.filter # "favorites" =>
         lastToggle.cards /\ lastToggle.inplace /\ lastToggle.copied

\* C16 witness: under "favorites", with two favorites shown, one was
\* un-favorited: its card is gone, one card is left and the count is 1.
C16_Witness ==
  /\ lastToggle.filter = "favorites" /\ lastToggle.was
  /\ lastToggle.gone /\ lastToggle.dropped
  /\ currentFilter = "favorites" /\ Len(grid) = 1 /\ count = 1
  /\ grid[1].name # lastToggle.name

\* the favorite button of a card has the favorited appearance, or the other
Favorited(card) ==
  card.favorited /\ card.glyph = "filled" /\ card.title = "Remove from favorites"
Unfavorited(card) ==
  ~card.favorited /\ card.glyph = "empty" /\ card.title = "Add to favorites"

\* C17 (as stated): in every reachable state each card of the grid has its
\* favorite button in the favorited appearance (filled glyph, class
\* "favorited", title "Remove from favorites") if and only if its font name
\* is in the FavoriteSet, and in the other appearance otherwise, after any
\* sequence of renders and in-place toggles.
C17_ButtonsReflectFavorites ==
  \A i \in 1..Len(grid) :
    IF grid[i].name \in Elems(favorites)
      THEN Favorited(grid[i]) ELSE Unfavorited(grid[i])

\* no two entries of the catalog carry the same font name
DistinctNames == \A i, j \in 1..Len(fonts) : fonts[i].name = fonts[j].name => i = j

\* C17 (amended): in every reachable state, provided no two catalog entries
\* share a font name, each card of the grid has its favorite button in the
\* favorited appearance if and only if its font name is in the FavoriteSet,
\* after any sequence of renders and in-place toggles.
C17_ButtonsReflectDistinct == DistinctNames => C17_ButtonsReflectFavorites

\* C17 witness: on a catalog of two fonts, outside the favorites view, the
\* last of two toggles was made in place, and the grid shows one favorite and
\* one font that is not.
C17_Witness ==
  /\ DistinctNames /\ Len(fonts) = 2 /\ Len(grid) = 2
  /\ Len(toggleLog) = 2 /\ lastToggle.filter = "serif" /\ lastRender = "all"
  /\ \E i, j \in 1..2 : Favorited(grid[i]) /\ Unfavorited(grid[j])

\* C18 (as stated): every card click whose copy succeeded gives a pulse of
\* CopiedDelay on a card of the visible grid, whatever render or other click
\* comes between the click and the end of the pulse: as long as the reset of
\* a pulse is pending, the card it belongs to is in the grid and is marked
\* "copied".
C18_PulseOnVisibleCard ==
  \A t \in timers :
    t.kind = "copied" => t.card \in 1..Len(grid) /\ grid[t.card].copied

\* C19: no favorite is toggled and nothing is written to localStorage before
\* loadFavorites has run and the catalog has been loaded (there is no card
\* before); so a name stored at startup and not toggled since is still in
\* the stored array, whatever happened.
C19_StoredFavoritesSurvive ==
  /\ (initPhase # "done" \/ loadPhase # "loaded") =>
       /\ grid = <<>> /\ toggleLog = <<>> /\ lastToggle = NoToggle
       /\ writes = 0
  /\ untouched \subseteq Elems(storage.items)
  /\ initPhase = "done" => untouched \subseteq Elems(favorites)

\* C19 witness: "Neon" was stored at startup, "Retro" was toggled on, and the
\* stored array holds both.
C19_Witness ==
  /\ untouched = {"Neon"} /\ writes = 1 /\ lastToggle.name = "Retro"
  /\ Elems(storage.items) = {"Neon", "Retro"}

====
